---- MODULE Spec2Model ----
(***************************************************************************)
(* Model of the ext4 FUSE adapter (src/main.rs): the Filesystem handlers   *)
(* of Ext4Fuse (lookup, getattr, setattr, read, write, readdir, unlink,    *)
(* mknod), the attribute mutation pipeline set_attr and the timestamp      *)
(* conversions.  The storage engine (crate ext4_rs) is an external         *)
(* collaborator: it is modelled as an inode table plus directory entry     *)
(* lists, and every call a handler makes into it is recorded in `calls`.   *)
(***************************************************************************)
EXTENDS Integers, Naturals, Sequences, FiniteSets, TLC

VARIABLES inodes,   \* engine inode table: inode number -> inode record
          dirs,     \* engine directory contents: inode number -> entry list
          request,  \* the request the host delivered last
          replies,  \* the replies the handler of that request sent, in order
          calls,    \* the engine calls that handler made, in order
          nops,     \* number of requests served so far
          conv      \* timestamp bridge under test: input, stamp, result

vars == <<inodes, dirs, request, replies, calls, nops, conv>>

(***************************************************************************)
(* Bounds of the model.                                                    *)
(***************************************************************************)
MaxIno == 6      \* size of the engine's inode table (inode numbers 1..MaxIno)
MaxOps == 2      \* number of requests the host delivers in one run

(***************************************************************************)
(* Program constants.                                                      *)
(***************************************************************************)
ENOENT == 2
EIO == 5
ENOSPC == 28
EOK == 0

S_IFIFO == 4096
S_IFCHR == 8192
S_IFBLK == 24576
S_IFDIR == 16384
S_IFREG == 32768
S_IFLNK == 40960
S_IFSOCK == 49152
S_IFMT == 61440

BLOCK_SIZE == 4096
EXT4_INODE_MODE_TYPE_MASK == 61440
FUSE_ROOT_ID == 1
EXT4_ROOT_INO == 2

TwoTo16 == 2 ^ 16

InodeIds == 1..MaxIno
HostIds == 1..MaxIno
\* a file name whose bytes are not valid UTF-8
NonUtf8 == "<ff>"
Names == {"a", "b", "c", NonUtf8}

(***************************************************************************)
(* Integers wider than TLC's are kept as two limbs: the value of           *)
(* [hi |-> h, lo |-> l] is h * 2^16 + l, with 0 <= l < 2^16.  A u32 has    *)
(* h < 2^16 as well.                                                       *)
(***************************************************************************)
Wide(h, l) == [hi |-> h, lo |-> l]

\* `x as u32` on a u64 number of seconds: keeps the low 32 bits
AsU32(w) == [hi |-> w.hi % TwoTo16, lo |-> w.lo]

\* `x as u16` on a u32 that fits TLC's integers
AsU16(x) == x % TwoTo16

RECURSIVE BitAnd(_, _)
BitAnd(a, b) ==
    IF a = 0 \/ b = 0 THEN 0
    ELSE (a % 2) * (b % 2) + 2 * BitAnd(a \div 2, b \div 2)

\* a & !b
RECURSIVE BitAndNot(_, _)
BitAndNot(a, b) ==
    IF a = 0 THEN 0
    ELSE (a % 2) * (1 - (b % 2)) + 2 * BitAndNot(a \div 2, b \div 2)

Min(a, b) == IF a < b THEN a ELSE b
Max(a, b) == IF a > b THEN a ELSE b

(***************************************************************************)
(* Wall-clock times (SystemTime): a distance from the epoch in seconds     *)
(* (wide) and nanoseconds, before or after it.                             *)
(***************************************************************************)
SysTime(b, h, l, n) == [before |-> b, secs |-> Wide(h, l), nanos |-> n]

UNIX_EPOCH == SysTime(FALSE, 0, 0, 0)

\* time.duration_since(UNIX_EPOCH).unwrap_or(Duration::from_secs(0)).as_secs() as u32
system_time_to_secs(time) ==
    IF time.before THEN Wide(0, 0) ELSE AsU32(time.secs)

\* a bridge that keeps the distance of a time before the epoch
system_time_to_timestamp_abs(time) == AsU32(time.secs)

system_time_to_timestamp(time) ==
    IF time.before THEN Wide(0, 0) ELSE AsU32(time.secs)

\* UNIX_EPOCH + Duration::from_secs(timestamp as u64)
timestamp_to_system_time(timestamp) ==
    [before |-> FALSE, secs |-> Wide(timestamp.hi, timestamp.lo), nanos |-> 0]

(***************************************************************************)
(* Optional values.                                                        *)
(***************************************************************************)
None == [some |-> FALSE]
Some(x) == [some |-> TRUE, v |-> x]

\* TimeOrNow
Now == [now |-> TRUE]
SpecificTime(t) == [now |-> FALSE, t |-> t]


(***************************************************************************)
(* Input sets the host draws its requests from.                            *)
(***************************************************************************)
T_5s == SysTime(FALSE, 0, 5, 0)
T_5s_half == SysTime(FALSE, 0, 5, 500000000)
T_wide == SysTime(FALSE, TwoTo16, 5, 0)       \* 2^32 + 5 seconds
T_before == SysTime(TRUE, 0, 3, 0)            \* 3 seconds before the epoch

Clock == {SysTime(FALSE, 0, 100, 0), SysTime(FALSE, 0, 101, 250000000)}

NoUpdate ==
    [mode |-> None, uid |-> None, gid |-> None, size |-> None,
     atime |-> None, mtime |-> None, ctime |-> None, crtime |-> None,
     chgtime |-> None, bkuptime |-> None, flags |-> None]

\* truncate; extend; chmod + chown; utimens; the remaining fields
Updates ==
    { [NoUpdate EXCEPT !.size = Some(0)],
      [NoUpdate EXCEPT !.size = Some(2 * 4096 + 7)],
      [NoUpdate EXCEPT !.mode = Some(S_IFREG + 365), !.uid = Some(70000),
                       !.gid = Some(1000)],
      [NoUpdate EXCEPT !.atime = Some(Now), !.mtime = Some(SpecificTime(T_5s_half))],
      [NoUpdate EXCEPT !.atime = Some(SpecificTime(T_wide)),
                       !.mtime = Some(SpecificTime(T_before))],
      [NoUpdate EXCEPT !.ctime = Some(T_5s), !.crtime = Some(T_5s_half),
                       !.chgtime = Some(T_5s), !.bkuptime = Some(T_5s),
                       !.flags = Some(128)] }

ReadOffsets == {0, 3}
ReadSizes == {2, 10}
WriteOffsets == {0, 3}
WriteData == {<<9>>}
DirOffsets == 0..3
MknodParents == {1, 3}
MknodModes ==
    {S_IFREG + 420, S_IFDIR + 493, S_IFLNK + 511,
     S_IFIFO + 420, S_IFCHR + 420, S_IFBLK + 420, S_IFSOCK + 420}
Umasks == {18}

(***************************************************************************)
(* The storage engine.                                                     *)
(***************************************************************************)
ZeroTime == Wide(0, 0)

FreeInode ==
    [mode |-> 0, uid |-> 0, gid |-> 0, size |-> 0, blocks |-> 0,
     atime |-> ZeroTime, mtime |-> ZeroTime, ctime |-> ZeroTime,
     crtime |-> ZeroTime, flags |-> 0, links |-> 0, data |-> <<>>]

DirEntry(name, ino, de_type) == [name |-> name, inode |-> ino, de_type |-> de_type]

\* the image the adapter is mounted on: /a (a 5-byte file), /b (a directory)
\* and /b/c (a symbolic link); inode 1 is reserved, inode 2 is the root
InitInodes ==
    [i \in InodeIds |->
        IF i = 2 THEN [FreeInode EXCEPT !.mode = S_IFDIR + 493, !.size = 4096,
                                        !.blocks = 8, !.links = 3,
                                        !.mtime = Wide(0, 50)]
        ELSE IF i = 3 THEN [FreeInode EXCEPT !.mode = S_IFDIR + 493, !.size = 4096,
                                             !.blocks = 8, !.links = 2,
                                             !.mtime = Wide(0, 60)]
        ELSE IF i = 4 THEN [FreeInode EXCEPT !.mode = S_IFREG + 420, !.size = 5,
                                             !.blocks = 8, !.links = 1,
                                             !.uid = 501, !.gid = 20,
                                             !.atime = Wide(0, 70),
                                             !.mtime = Wide(0, 70),
                                             !.ctime = Wide(0, 70),
                                             !.crtime = Wide(0, 70),
                                             !.data = <<1, 2, 3, 4, 5>>]
        ELSE IF i = 5 THEN [FreeInode EXCEPT !.mode = S_IFLNK + 511, !.size = 1,
                                             !.links = 1, !.data = <<97>>]
        ELSE FreeInode]

InitDirs ==
    [i \in InodeIds |->
        IF i = 2 THEN <<DirEntry("a", 4, 1), DirEntry("b", 3, 2)>>
        ELSE IF i = 3 THEN <<DirEntry("c", 5, 7)>>
        ELSE <<>>]

\* position of `name` in directory `dir`, 0 when it has no such entry
EntryIndex(dir, name) ==
    LET hits == {k \in 1..Len(dirs[dir]) : dirs[dir][k].name = name}
    IN  IF hits = {} THEN 0 ELSE CHOOSE k \in hits : \A j \in hits : k <= j

\* the outcome of an open: Ext4File.inode and Ext4File.fsize as the engine
\* leaves them (Ext4File::new() has inode 0 and fsize 0)
OpenOk(ino) == [ok |-> TRUE, inode |-> ino, fsize |-> inodes[ino].size]
OpenErr == [ok |-> FALSE, inode |-> 0, fsize |-> 0]

\* ext4_open_from(parent, file, name, "r", false)
ext4_open_from(parent, name) ==
    IF parent \in InodeIds /\ EntryIndex(parent, name) # 0
    THEN OpenOk(dirs[parent][EntryIndex(parent, name)].inode)
    ELSE OpenErr

\* ext4_open(file, path, "r", false): the path is resolved from the root
ext4_open(path) == ext4_open_from(EXT4_ROOT_INO, path)

IsFree(i) == i \notin {1, EXT4_ROOT_INO} /\ inodes[i].links = 0

IsRegular(i) == BitAnd(inodes[i].mode, EXT4_INODE_MODE_TYPE_MASK) = S_IFREG

\* the identifiers the host can name: the reserved root and every live node
Known(h) == h = FUSE_ROOT_ID \/ inodes[h].links > 0

\* byte i (from 0) of a file; what was never written reads as zero
Content(ino, i) ==
    IF i < Len(inodes[ino].data) THEN inodes[ino].data[i + 1] ELSE 0

\* one call into the engine: the function, the node identifier it is given
\* (0 when it takes none), whether that identifier is the one the host
\* supplied with the request, and whether the call succeeded
Call(fn, ino, host, ok) == [fn |-> fn, ino |-> ino, host |-> host, ok |-> ok]


(***************************************************************************)
(* Replies.                                                                *)
(***************************************************************************)
ReplyError(code) == [kind |-> "error", code |-> code]
ReplyEntry(attr) == [kind |-> "entry", attr |-> attr]
ReplyAttr(attr) == [kind |-> "attr", attr |-> attr]
ReplyData(data) == [kind |-> "data", data |-> data]
ReplyDirectory(entries) == [kind |-> "directory", entries |-> entries]
ReplyWritten(n) == [kind |-> "written", size |-> n]
ReplyEmpty == [kind |-> "ok"]

(***************************************************************************)
(* Attribute synthesis.                                                    *)
(***************************************************************************)
\* a derivation without the fallback for symbolic links
FileTypeOfStrict(mode) ==
    LET inode_type == BitAnd(mode, EXT4_INODE_MODE_TYPE_MASK)
    IN  IF inode_type = S_IFDIR THEN "Directory"
        ELSE IF inode_type = S_IFREG THEN "RegularFile"
        ELSE IF inode_type = S_IFLNK THEN "Symlink"
        ELSE "RegularFile"

\* InodeMode::from_bits(mode & EXT4_INODE_MODE_TYPE_MASK).unwrap() and the
\* match on it: every pattern of the four type bits is a value of InodeMode
FileTypeOf(mode) ==
    LET inode_type == BitAnd(mode, EXT4_INODE_MODE_TYPE_MASK)
    IN  IF inode_type = S_IFDIR THEN "Directory"
        ELSE IF inode_type = S_IFREG THEN "RegularFile"
        ELSE "RegularFile"

\* the root translation: fuse uses 1 as root inode
RootRemap(ino) == IF ino = FUSE_ROOT_ID THEN EXT4_ROOT_INO ELSE ino

LookupAttr(file, file_type) ==
    [ino |-> file.inode, size |-> file.fsize, blocks |-> file.fsize \div BLOCK_SIZE,
     atime |-> UNIX_EPOCH, mtime |-> UNIX_EPOCH, ctime |-> UNIX_EPOCH,
     crtime |-> UNIX_EPOCH, kind |-> file_type, perm |-> 420, nlink |-> 1,
     uid |-> 501, gid |-> 20, rdev |-> 0, flags |-> 0, blksize |-> BLOCK_SIZE]

GetattrAttr(inode, inode_ref) ==
    [ino |-> inode, size |-> inode_ref.size, blocks |-> inode_ref.size \div BLOCK_SIZE,
     atime |-> UNIX_EPOCH, mtime |-> UNIX_EPOCH, ctime |-> UNIX_EPOCH,
     crtime |-> UNIX_EPOCH, kind |-> FileTypeOf(inode_ref.mode), perm |-> 511,
     nlink |-> inode_ref.links, uid |-> 501, gid |-> 20, rdev |-> 0, flags |-> 0,
     blksize |-> BLOCK_SIZE]

SetattrAttr(inode, inode_ref) ==
    [ino |-> inode, size |-> inode_ref.size, blocks |-> inode_ref.blocks,
     atime |-> timestamp_to_system_time(inode_ref.atime),
     mtime |-> timestamp_to_system_time(inode_ref.mtime),
     ctime |-> timestamp_to_system_time(inode_ref.ctime),
     crtime |-> timestamp_to_system_time(inode_ref.crtime),
     kind |-> FileTypeOf(inode_ref.mode), perm |-> BitAnd(inode_ref.mode, 511),
     nlink |-> inode_ref.links, uid |-> inode_ref.uid, gid |-> inode_ref.gid,
     rdev |-> 0, flags |-> 0, blksize |-> BLOCK_SIZE]

(***************************************************************************)
(* lookup, getattr.                                                        *)
(***************************************************************************)
\* name.to_str(): None for a name that is not valid UTF-8
to_str(name) == IF name = NonUtf8 THEN None ELSE Some(name)

\* name.to_str().unwrap_or_default()
to_str_or_default(name) == IF to_str(name).some THEN to_str(name).v ELSE ""

\* A handler that panics sends no reply and takes the process down with it:
\* requests are served only while no handler has ended without a reply.
Alive == request.op = "none" \/ replies # <<>>

\* name.to_str().unwrap() panics on a name that is not valid UTF-8, before
\* any engine call.
\* When the open fails, file.inode is still 0 and get_inode_ref(0) reads
\* outside the inode table (the engine computes inode - 1 on a u32): a build
\* with overflow checks aborts the handler there, one without reads some
\* inode and goes on to the error reply.
lookup(parent, name) ==
    /\ nops < MaxOps
    /\ Alive
    /\ Known(parent)
    /\ LET p == RootRemap(parent)
           file == ext4_open_from(p, name)
       IN  IF ~to_str(name).some
           THEN /\ calls' = <<>>
                /\ replies' = <<>>
           ELSE IF file.ok
           THEN /\ calls' = <<Call("ext4_open_from", p, TRUE, TRUE),
                              Call("get_inode_ref", file.inode, FALSE, TRUE)>>
                /\ replies' = <<ReplyEntry(LookupAttr(file,
                                    FileTypeOf(inodes[file.inode].mode)))>>
           ELSE \E aborted \in BOOLEAN :
                    /\ calls' = <<Call("ext4_open_from", p, TRUE, FALSE),
                                  Call("get_inode_ref", file.inode, FALSE, ~aborted)>>
                    /\ replies' = IF aborted THEN <<>> ELSE <<ReplyError(ENOENT)>>
    /\ request' = [op |-> "lookup", parent |-> parent, name |-> name]
    /\ nops' = nops + 1
    /\ UNCHANGED <<inodes, dirs, conv>>

getattr(ino) ==
    /\ nops < MaxOps
    /\ Alive
    /\ Known(ino)
    /\ LET inode == RootRemap(ino)
       IN  /\ calls' = <<Call("get_inode_ref", inode, TRUE, TRUE)>>
           /\ replies' = <<ReplyAttr(GetattrAttr(inode, inodes[inode]))>>
    /\ request' = [op |-> "getattr", ino |-> ino]
    /\ nops' = nops + 1
    /\ UNCHANGED <<inodes, dirs, conv>>

(***************************************************************************)
(* setattr and the attribute mutation pipeline.                            *)
(***************************************************************************)
TimeOrNowSecs(t, now) == IF t.now THEN now ELSE system_time_to_secs(t.t)

\* a pipeline in which a size change also stamps the modification time
set_attr_touching(inode_ref, attr, clock) ==
    LET now == system_time_to_secs(clock)
    IN  [inode_ref EXCEPT
            !.mode = IF attr.mode.some THEN AsU16(attr.mode.v) ELSE @,
            !.uid = IF attr.uid.some THEN AsU16(attr.uid.v) ELSE @,
            !.gid = IF attr.gid.some THEN AsU16(attr.gid.v) ELSE @,
            !.size = IF attr.size.some THEN attr.size.v ELSE @,
            !.atime = IF attr.atime.some THEN TimeOrNowSecs(attr.atime.v, now) ELSE @,
            !.mtime = IF attr.mtime.some THEN TimeOrNowSecs(attr.mtime.v, now)
                      ELSE IF attr.size.some THEN now ELSE @,
            !.ctime = IF attr.ctime.some THEN system_time_to_secs(attr.ctime.v) ELSE @,
            !.crtime = IF attr.crtime.some THEN system_time_to_secs(attr.crtime.v) ELSE @,
            !.flags = IF attr.flags.some THEN attr.flags.v ELSE @]

\* set_attr: the inode record written back for `inode_ref` under update `attr`,
\* `clock` being what SystemTime::now() returns
set_attr(inode_ref, attr, clock) ==
    LET now == system_time_to_secs(clock)
    IN  [inode_ref EXCEPT
            !.mode = IF attr.mode.some THEN AsU16(attr.mode.v) ELSE @,
            !.uid = IF attr.uid.some THEN AsU16(attr.uid.v) ELSE @,
            !.gid = IF attr.gid.some THEN AsU16(attr.gid.v) ELSE @,
            !.size = IF attr.size.some THEN attr.size.v ELSE @,
            !.atime = IF attr.atime.some THEN TimeOrNowSecs(attr.atime.v, now) ELSE @,
            !.mtime = IF attr.mtime.some THEN TimeOrNowSecs(attr.mtime.v, now) ELSE @,
            !.ctime = IF attr.ctime.some THEN system_time_to_secs(attr.ctime.v) ELSE @,
            !.crtime = IF attr.crtime.some THEN system_time_to_secs(attr.crtime.v) ELSE @,
            !.flags = IF attr.flags.some THEN attr.flags.v ELSE @]

setattr(inode, attrs, clock) ==
    /\ nops < MaxOps
    /\ Alive
    /\ Known(inode)
    /\ inodes' = [inodes EXCEPT ![inode] = set_attr(inodes[inode], attrs, clock)]
    /\ calls' = <<Call("get_inode_ref", inode, TRUE, TRUE),
                  Call("write_back_inode", inode, TRUE, TRUE),
                  Call("get_inode_ref", inode, TRUE, TRUE)>>
    /\ replies' = <<ReplyAttr(SetattrAttr(inode, inodes'[inode]))>>
    /\ request' = [op |-> "setattr", ino |-> inode, attrs |-> attrs, clock |-> clock]
    /\ nops' = nops + 1
    /\ UNCHANGED <<dirs, conv>>

(***************************************************************************)
(* read, write.                                                            *)
(***************************************************************************)
\* a buffer that is allocated but not cleared
Unzeroed(size) == [k \in 1..size |-> 255]

\* vec![0u8; size]
Zeroed(size) == [k \in 1..size |-> 0]

\* ext4_file_read on success: the bytes fpos .. fsize-1, at most `size` of
\* them, are copied to the front of `buf`; the rest of `buf` is left alone
ext4_file_read(ino, fpos, buf, size) ==
    LET cnt == Min(size, inodes[ino].size - fpos)
    IN  [data |-> [k \in 1..Len(buf) |->
                      IF k <= cnt THEN Content(ino, fpos + k - 1) ELSE buf[k]],
         read_cnt |-> cnt]

\* the host reads and writes regular files, inside the size it knows
read(ino, offset, size) ==
    /\ nops < MaxOps
    /\ Alive
    /\ Known(ino)
    /\ IsRegular(RootRemap(ino))
    /\ offset <= inodes[ino].size
    /\ \E ok \in BOOLEAN :
          /\ calls' = <<Call("ext4_file_read", ino, TRUE, ok)>>
          /\ replies' = IF ok
                        THEN <<ReplyData(ext4_file_read(ino, offset, Zeroed(size),
                                                        size).data)>>
                        ELSE <<ReplyError(ENOENT)>>
    /\ request' = [op |-> "read", ino |-> ino, offset |-> offset, size |-> size]
    /\ nops' = nops + 1
    /\ UNCHANGED <<inodes, dirs, conv>>

\* ext4_file_write on success: the inode after `data` is stored at fpos
ext4_file_write(inode_ref, fpos, data) ==
    LET end == fpos + Len(data)
        len == Max(Len(inode_ref.data), end)
    IN  [inode_ref EXCEPT
            !.data = [k \in 1..len |->
                         IF k > fpos /\ k <= end THEN data[k - fpos]
                         ELSE IF k <= Len(inode_ref.data) THEN inode_ref.data[k]
                         ELSE 0],
            !.size = Max(@, end),
            !.blocks = IF @ = 0 THEN BLOCK_SIZE \div 512 ELSE @]

write(ino, offset, data) ==
    /\ nops < MaxOps
    /\ Alive
    /\ Known(ino)
    /\ IsRegular(RootRemap(ino))
    /\ \E ok \in BOOLEAN :
          /\ calls' = <<Call("ext4_file_write", ino, TRUE, ok)>>
          /\ inodes' = IF ok
                       THEN [inodes EXCEPT ![ino] = ext4_file_write(@, offset, data)]
                       ELSE inodes
    /\ replies' = <<ReplyWritten(Len(data))>>
    /\ request' = [op |-> "write", ino |-> ino, offset |-> offset, data |-> data]
    /\ nops' = nops + 1
    /\ UNCHANGED <<dirs, conv>>

(***************************************************************************)
(* readdir.                                                                *)
(***************************************************************************)
DeKind(detype) ==
    IF detype = 1 THEN "RegularFile"
    ELSE IF detype = 2 THEN "Directory"
    ELSE "RegularFile"

\* skip before enumerate: the cookies count from the start of the slice
DirReplyRenumbered(entries, offset) ==
    [k \in 1..Max(0, Len(entries) - offset) |->
        LET entry == entries[offset + k]
        IN  [ino |-> entry.inode, offset |-> k,
             kind |-> IF entry.de_type = 2 THEN "Directory" ELSE "RegularFile",
             name |-> entry.name]]

\* entries.iter().enumerate().skip(offset): the pairs (i, entry), i from 0,
\* without the first `offset` of them; each is added with cookie i + 1
DirReply(entries, offset) ==
    [k \in 1..Max(0, Len(entries) - offset) |->
        LET i == offset + k - 1
            entry == entries[i + 1]
        IN  [ino |-> entry.inode, offset |-> i + 1,
             kind |-> DeKind(entry.de_type), name |-> entry.name]]

readdir(ino, offset) ==
    /\ nops < MaxOps
    /\ Alive
    /\ Known(ino)
    /\ LET inode == RootRemap(ino)
       IN  /\ calls' = <<Call("read_dir_entry", inode, TRUE, TRUE)>>
           /\ replies' = <<ReplyDirectory(DirReply(dirs[inode], offset))>>
    /\ request' = [op |-> "readdir", ino |-> ino, offset |-> offset]
    /\ nops' = nops + 1
    /\ UNCHANGED <<inodes, dirs, conv>>

(***************************************************************************)
(* unlink.                                                                 *)
(***************************************************************************)
RemoveAt(seq, k) == [j \in 1..(Len(seq) - 1) |-> IF j < k THEN seq[j] ELSE seq[j + 1]]

IsDir(i) == BitAnd(inodes[i].mode, EXT4_INODE_MODE_TYPE_MASK) = S_IFDIR

\* ext4_unlink(parent_ref, child_ref, name): fails on a child that has
\* entries and when `parent` has no entry `name`; otherwise the entry leaves
\* the parent and the child loses a link (a directory loses all of them, and
\* its parent the link of its "..")
ext4_unlink(parent, child, name) ==
    LET k == EntryIndex(parent, name)
    IN  IF dirs[child] # <<>> \/ k = 0
        THEN [status |-> EIO, inodes |-> inodes, dirs |-> dirs]
        ELSE [status |-> EOK,
              inodes |->
                  IF IsDir(child)
                  THEN [i \in InodeIds |->
                           IF i = child THEN [inodes[i] EXCEPT !.links = 0]
                           ELSE IF i = parent
                           THEN [inodes[i] EXCEPT !.links = Max(0, @ - 1)]
                           ELSE inodes[i]]
                  ELSE [inodes EXCEPT ![child].links = Max(0, @ - 1)],
              dirs |-> [dirs EXCEPT ![parent] = RemoveAt(@, k)]]

unlink(parent, name) ==
    /\ nops < MaxOps
    /\ Alive
    /\ Known(parent)
    /\ LET path == to_str_or_default(name)
           child == ext4_open(path)
           result == ext4_unlink(parent, child.inode, path)
       IN  IF child.ok
           THEN /\ calls' = <<Call("get_inode_ref", parent, TRUE, TRUE),
                              Call("ext4_open", 0, FALSE, TRUE),
                              Call("get_inode_ref", child.inode, FALSE, TRUE),
                              Call("ext4_unlink", parent, TRUE, result.status = EOK)>>
                /\ inodes' = result.inodes
                /\ dirs' = result.dirs
                /\ replies' = IF result.status = EOK THEN <<ReplyEmpty>>
                              ELSE <<ReplyError(EIO)>>
           ELSE /\ calls' = <<Call("get_inode_ref", parent, TRUE, TRUE),
                              Call("ext4_open", 0, FALSE, FALSE)>>
                /\ replies' = <<ReplyError(ENOENT)>>
                /\ UNCHANGED <<inodes, dirs>>
    /\ request' = [op |-> "unlink", parent |-> parent, name |-> name]
    /\ nops' = nops + 1
    /\ UNCHANGED conv

(***************************************************************************)
(* mknod.                                                                  *)
(***************************************************************************)
\* a type check that only turns device nodes away
IsNotDevice(file_type) == file_type # S_IFCHR /\ file_type # S_IFBLK

IsSupportedType(file_type) ==
    file_type = S_IFREG \/ file_type = S_IFLNK \/ file_type = S_IFDIR

MknodKind(file_type) ==
    IF file_type = S_IFREG THEN "RegularFile"
    ELSE IF file_type = S_IFCHR THEN "CharDevice"
    ELSE IF file_type = S_IFBLK THEN "BlockDevice"
    ELSE IF file_type = S_IFIFO THEN "NamedPipe"
    ELSE IF file_type = S_IFSOCK THEN "Socket"
    ELSE "RegularFile"

MknodAttr(ext4_file, file_type, actual_mode, rdev, uid, gid) ==
    [ino |-> ext4_file.inode, size |-> 0, blocks |-> 0,
     atime |-> UNIX_EPOCH, mtime |-> UNIX_EPOCH, ctime |-> UNIX_EPOCH,
     crtime |-> UNIX_EPOCH, kind |-> MknodKind(file_type),
     perm |-> AsU16(actual_mode), nlink |-> 1, uid |-> uid, gid |-> gid,
     rdev |-> rdev, flags |-> 0, blksize |-> 4096]

FirstFree == CHOOSE i \in InodeIds : IsFree(i) /\ \A j \in InodeIds : IsFree(j) => i <= j

\* ext4_open(file, path, "w+", true) when `path` is new and the engine
\* creates it: a regular file in the root directory, on the first free inode
ext4_create(path) ==
    [inode |-> FirstFree,
     inodes |-> [inodes EXCEPT ![FirstFree] =
                    [FreeInode EXCEPT !.mode = S_IFREG + 438, !.links = 1]],
     dirs |-> [dirs EXCEPT ![EXT4_ROOT_INO] = Append(@, DirEntry(path, FirstFree, 1))]]

\* name.to_str().unwrap() panics on a name that is not valid UTF-8, after
\* the type check and before the engine is called.
mknod(parent, name, mode, umask, rdev) ==
    /\ nops < MaxOps
    /\ Alive
    /\ Known(parent)
    /\ LET file_type == BitAnd(mode, S_IFMT)
           actual_mode == BitAndNot(mode, umask)
           found == ext4_open(name)
       IN  IF ~IsSupportedType(file_type)
           THEN /\ calls' = <<>>
                /\ replies' = <<ReplyError(ENOSPC)>>
                /\ UNCHANGED <<inodes, dirs>>
           ELSE IF ~to_str(name).some
           THEN /\ calls' = <<>>
                /\ replies' = <<>>
                /\ UNCHANGED <<inodes, dirs>>
           ELSE \/ /\ found.ok
                   /\ calls' = <<Call("ext4_open", 0, FALSE, TRUE)>>
                   /\ replies' = <<ReplyEntry(MknodAttr(found, file_type,
                                       actual_mode, rdev, 1000, 1000))>>
                   /\ UNCHANGED <<inodes, dirs>>
                \/ /\ ~found.ok
                   /\ \E i \in InodeIds : IsFree(i)
                   /\ calls' = <<Call("ext4_open", 0, FALSE, TRUE)>>
                   /\ inodes' = ext4_create(name).inodes
                   /\ dirs' = ext4_create(name).dirs
                   /\ replies' = <<ReplyEntry(MknodAttr(ext4_create(name), file_type,
                                       actual_mode, rdev, 1000, 1000))>>
                \/ /\ ~found.ok
                   /\ calls' = <<Call("ext4_open", 0, FALSE, FALSE)>>
                   /\ replies' = <<ReplyError(EIO)>>
                   /\ UNCHANGED <<inodes, dirs>>
    /\ request' = [op |-> "mknod", parent |-> parent, name |-> name, mode |-> mode,
                   umask |-> umask, rdev |-> rdev]
    /\ nops' = nops + 1
    /\ UNCHANGED conv

(***************************************************************************)
(* The timestamp bridge on its own: a wall-clock time is converted to the  *)
(* engine's stamp and back.                                                *)
(***************************************************************************)
TimeInputs ==
    {SysTime(b, h, l, n) :
        b \in BOOLEAN, h \in {0, 1, TwoTo16 - 1, TwoTo16, TwoTo16 + 1},
        l \in {0, 1, 5, TwoTo16 - 1}, n \in {0, 500000000}}
    \ {SysTime(TRUE, 0, 0, 0)}

ToTimestamp ==
    /\ conv.pc = "input"
    /\ conv' = [conv EXCEPT !.pc = "stamped",
                            !.stamp = system_time_to_timestamp(conv.time)]
    /\ UNCHANGED <<inodes, dirs, request, replies, calls, nops>>

ToSystemTime ==
    /\ conv.pc = "stamped"
    /\ conv' = [conv EXCEPT !.pc = "done",
                            !.back = timestamp_to_system_time(conv.stamp)]
    /\ UNCHANGED <<inodes, dirs, request, replies, calls, nops>>

ConvIdle == [pc |-> "idle"]

Init ==
    /\ inodes = InitInodes
    /\ dirs = InitDirs
    /\ request = [op |-> "none"]
    /\ replies = <<>>
    /\ calls = <<>>
    /\ nops = 0
    /\ conv = ConvIdle

Next ==
    \/ \E parent \in HostIds, name \in Names : lookup(parent, name)
    \/ \E ino \in HostIds : getattr(ino)
    \/ \E ino \in HostIds, attrs \in Updates, clock \in Clock : setattr(ino, attrs, clock)
    \/ \E ino \in HostIds, offset \in ReadOffsets, size \in ReadSizes :
          read(ino, offset, size)
    \/ \E ino \in HostIds, offset \in WriteOffsets, data \in WriteData :
          write(ino, offset, data)
    \/ \E ino \in HostIds, offset \in DirOffsets : readdir(ino, offset)
    \/ \E parent \in HostIds, name \in Names : unlink(parent, name)
    \/ \E parent \in MknodParents, name \in Names, mode \in MknodModes,
          umask \in Umasks, rdev \in {0} : mknod(parent, name, mode, umask, rdev)

Spec == Init /\ [][Next]_vars

InitTime ==
    /\ inodes = InitInodes
    /\ dirs = InitDirs
    /\ request = [op |-> "none"]
    /\ replies = <<>>
    /\ calls = <<>>
    /\ nops = 0
    /\ \E t \in TimeInputs :
          conv = [pc |-> "input", time |-> t, stamp |-> ZeroTime, back |-> UNIX_EPOCH]

NextTime == ToTimestamp \/ ToSystemTime

SpecTime == InitTime /\ [][NextTime]_vars


(***************************************************************************)
(* Properties.                                                             *)
(***************************************************************************)
\* the node identifier the host supplied with the last request
HostNode == IF request.op \in {"lookup", "unlink", "mknod"} THEN request.parent
            ELSE request.ino

TypeBits(mode) == (mode \div 4096) % 16

\* C1: no call into the storage engine carries the host's reserved root
\* identifier: whenever lookup, getattr, setattr, read, write or readdir hands
\* the engine the identifier the host supplied, the engine sees 2 if the host
\* supplied 1, and the host's identifier otherwise.
C1_RootNeverReachesEngine ==
    request.op \in {"lookup", "getattr", "setattr", "read", "write", "readdir"} =>
        \A i \in DOMAIN calls :
            calls[i].host =>
                calls[i].ino = (IF HostNode = 1 THEN 2 ELSE HostNode)

\* C2: every attribute record replied by lookup, getattr, setattr or mknod
\* has blocks = size / BLOCK_SIZE (floor), size being the record's own size.
C2_BlocksIsSizeOverBlockSize ==
    (request.op \in {"lookup", "getattr", "setattr", "mknod"} /\ Len(replies) = 1
        /\ replies[1].kind \in {"entry", "attr"}) =>
        replies[1].attr.blocks = replies[1].attr.size \div 4096

Unchanged(i, field) == inodes'[i][field] = inodes[i][field]

\* C3: a setattr step changes no stored field of any node whose update field
\* is absent, and changes nothing in any node but the one it is applied to.
C3_SetattrFrame ==
    [][(request'.op = "setattr" /\ nops' = nops + 1) =>
          LET a == request'.attrs
          IN  /\ \A i \in InodeIds :
                    /\ ~a.mode.some => Unchanged(i, "mode")
                    /\ ~a.uid.some => Unchanged(i, "uid")
                    /\ ~a.gid.some => Unchanged(i, "gid")
                    /\ ~a.size.some => Unchanged(i, "size")
                    /\ ~a.atime.some => Unchanged(i, "atime")
                    /\ ~a.mtime.some => Unchanged(i, "mtime")
                    /\ ~a.ctime.some => Unchanged(i, "ctime")
                    /\ ~a.crtime.some => Unchanged(i, "crtime")
                    /\ ~a.flags.some => Unchanged(i, "flags")
                    /\ Unchanged(i, "links") /\ Unchanged(i, "blocks")
                    /\ Unchanged(i, "data")
              /\ \A i \in InodeIds \ {request'.ino} : inodes'[i] = inodes[i]
              /\ dirs' = dirs]_vars

\* C3 witness: a setattr carrying only size = 0 has truncated /a, whose mode,
\* owner, group and timestamps are those of the mounted image.
C3_Witness ==
    /\ request.op = "setattr" /\ request.ino = 4
    /\ request.attrs = [NoUpdate EXCEPT !.size = Some(0)]
    /\ inodes[4].size = 0
    /\ inodes[4] = [InitInodes[4] EXCEPT !.size = 0]

\* C4: an unlink whose name does not resolve under the parent the host named
\* replies ENOENT, does not call the engine's unlink and leaves the engine's
\* directories and link counts as they were.
C4_UnlinkUnresolved ==
    [][(request'.op = "unlink" /\ nops' = nops + 1
          /\ EntryIndex(IF request'.parent = 1 THEN 2 ELSE request'.parent,
                        request'.name) = 0) =>
          /\ replies' = <<ReplyError(ENOENT)>>
          /\ \A i \in DOMAIN calls' : calls'[i].fn # "ext4_unlink"
          /\ dirs' = dirs
          /\ \A i \in InodeIds : inodes'[i].links = inodes[i].links]_vars

IsSpecial(mode) == TypeBits(mode) \in {1, 2, 6, 12}

C8_KindFromTypeBits ==
    (request.op \in {"lookup", "getattr", "setattr"} /\ Len(replies) = 1
        /\ replies[1].kind \in {"entry", "attr"}) =>
        replies[1].attr.kind =
            (IF TypeBits(inodes[replies[1].attr.ino].mode) = 4 THEN "Directory"
             ELSE "RegularFile")

\* C8 witness: lookup has resolved the symbolic link /b/c and replied it as
\* a regular file.
C8_Witness ==
    /\ request.op = "lookup" /\ request.name = "c"
    /\ Len(replies) = 1 /\ replies[1].kind = "entry"
    /\ TypeBits(inodes[replies[1].attr.ino].mode) = 10
    /\ replies[1].attr.kind = "RegularFile"

WholeSecond(t) == ~t.before /\ t.nanos = 0

\* C9 as stated: every whole-second time at or after the epoch survives the
\* round trip, and every time before the epoch converts to 0.
C9_RoundTripAll ==
    /\ (conv.pc = "done" /\ WholeSecond(conv.time)) => conv.back = conv.time
    /\ (conv.pc \in {"stamped", "done"} /\ conv.time.before) => conv.stamp = Wide(0, 0)

\* C9 amended: every whole-second time from the epoch up to 2^32 - 1 seconds
\* after it survives the round trip, and every time before the epoch
\* converts to 0.
C9_RoundTripU32 ==
    /\ (conv.pc = "done" /\ WholeSecond(conv.time) /\ conv.time.secs.hi < TwoTo16) =>
          conv.back = conv.time
    /\ (conv.pc \in {"stamped", "done"} /\ conv.time.before) => conv.stamp = Wide(0, 0)

\* C9 witness: 2^32 - 1 seconds after the epoch has made the round trip.
C9_Witness ==
    /\ conv.pc = "done"
    /\ conv.time = SysTime(FALSE, TwoTo16 - 1, TwoTo16 - 1, 0)
    /\ conv.back = conv.time

Requested(t, clock) == IF t.now THEN clock ELSE t.t

\* C10: the record setattr replies carries, for every field the update
\* holds, the requested value (permission bits of the mode, uid, gid, size,
\* whole seconds of atime, mtime, ctime, crtime), under the identifier of
\* the request.
C10_SetattrReplyReflects ==
    request.op = "setattr" =>
        LET a == request.attrs
            r == replies[1].attr
        IN  /\ Len(replies) = 1 /\ replies[1].kind = "attr"
            /\ r.ino = request.ino
            /\ a.mode.some => r.perm = a.mode.v % 512
            /\ a.uid.some => r.uid = a.uid.v
            /\ a.gid.some => r.gid = a.gid.v
            /\ a.size.some => r.size = a.size.v
            /\ a.atime.some =>
                  (~r.atime.before
                     /\ r.atime.secs = Requested(a.atime.v, request.clock).secs)
            /\ a.mtime.some =>
                  (~r.mtime.before
                     /\ r.mtime.secs = Requested(a.mtime.v, request.clock).secs)
            /\ a.ctime.some => (~r.ctime.before /\ r.ctime.secs = a.ctime.v.secs)
            /\ a.crtime.some => (~r.crtime.before /\ r.crtime.secs = a.crtime.v.secs)

ReplyKinds == {"entry", "attr", "data", "directory", "written", "ok", "error"}

\* C11: every request served ends with exactly one reply, a success reply
\* or an error reply, on every path (engine failure and early rejection
\* included), and no engine call that failed is made again.
C11_ExactlyOneReply ==
    request.op # "none" =>
        /\ Len(replies) = 1
        /\ replies[1].kind \in ReplyKinds
        /\ \A i, j \in DOMAIN calls :
              (i < j /\ ~calls[i].ok) => calls[j].fn # calls[i].fn

====
